---- MODULE Spec2Model ----
(***************************************************************************)
(* A model of the chat history manager (src/chathistory.py, class          *)
(* ChatHistory) as driven by the command loop of src/main.py.              *)
(*                                                                         *)
(* One action per public method of ChatHistory, each modelling the whole   *)
(* method including the trailing _maybe_compress / _save_session calls.    *)
(* The pure helper _normalize_tail is additionally exercised on arbitrary  *)
(* bounded inputs by the specification SpecNormalize, and the tool         *)
(* discovery client (src/mcp_client.py, class MCPClient) is modelled in    *)
(* front of every kind of server by the specification SpecMcp.             *)
(*                                                                         *)
(* Representation choices                                                  *)
(*   - Python None / an absent value is the empty sequence <<>>, a present *)
(*     value v is <<v>> (so that TLC never compares values of two types).  *)
(*   - A message is a record [role, content, timestamp, metadata];         *)
(*     "metadata" always exists in the model, its type "absent" stands for *)
(*     a message without the metadata key. A timestamp is the reading of   *)
(*     the clock (a natural number) when the message was built.            *)
(*   - A text is a record [kind, nonempty, labels, n]: where it came from, *)
(*     whether it has at least one character, which of the five summary    *)
(*     field labels occur in it, and a number telling texts of one kind    *)
(*     apart (for the fallback summary: the number of transcript lines).   *)
(*   - The history directory is the function disk from file keys to an     *)
(*     optional file content. The session document <name>.json has the key *)
(*     <name>, any other file has its full name as key. A file content is  *)
(*     a record whose field json tells a complete JSON object ("object")   *)
(*     from a text that json.load rejects.                                 *)
(***************************************************************************)
EXTENDS Integers, Sequences, FiniteSets, TLC

VARIABLES
    messages,            \* self.messages
    session_file,        \* self.session_file (None or the stem of the file)
    system_prompt,       \* self.system_prompt
    temperature,         \* self.temperature
    max_tokens,          \* self.max_tokens
    compress_after,      \* self.compress_after
    session_tokens,      \* self.session_tokens
    summarizer,          \* self._summarizer (custom function configured?)
    summarizer_client,   \* self._summarizer_client (backend configured?)
    disk,                \* the files of history_dir
    op,                  \* the last call made on the object and how it went
    nt_in,               \* SpecNormalize: argument of _normalize_tail
    nt_out,              \* SpecNormalize: its result, then the result on the result
    nt_pc,               \* SpecNormalize: "input" | "once" | "twice"
    now,                 \* what datetime.now() returns (a count of clock ticks)
    mcp_server,          \* SpecMcp: how the MCP server answers each request
    mcp_op               \* SpecMcp: the last call on the MCPClient and its outcome

vars == <<messages, session_file, system_prompt, temperature, max_tokens,
          compress_after, session_tokens, summarizer, summarizer_client,
          disk, op, nt_in, nt_out, nt_pc, now, mcp_server, mcp_op>>

objvars == <<messages, session_file, system_prompt, temperature, max_tokens,
             compress_after, session_tokens, summarizer, summarizer_client,
             disk, op>>

ntvars == <<nt_in, nt_out, nt_pc>>

mcpvars == <<mcp_server, mcp_op>>

----------------------------------------------------------------------------
(* Values *)

None == <<>>

Some(v) == <<v>>

Max(a, b) == IF a >= b THEN a ELSE b

Min(a, b) == IF a <= b THEN a ELSE b

Roles == {"user", "assistant", "system", "tool"}

FieldLabels == {"goals", "decisions", "constraints", "open_questions", "todos"}

MinCompressAfter == 4

\* The thresholds passed to the constructor, which takes any integer (its
\* default, 12, would need lists of 13 messages): one set_compress_after
\* rejects and one it accepts.
CtorCompressAfter == {3, 4}

\* The thresholds offered to set_compress_after (by Spec, by SpecCompaction).
LoopLimitInputs == {3, 4}

LimitInputs == {3, 4, 5}

\* The session names offered to create_session and load_session.
SessionNames == {"s1"}

\* The files of history_dir that are no session documents.
OtherFiles == {"chat.txt"}

Files == SessionNames \cup OtherFiles

\* The file names offered to export_history: a name of its own and the name
\* of a session document.
ExportTargets == {"chat.txt", "s1.json"}

\* The key of history_dir / filename.
FileKey(filename) ==
    IF \E n \in SessionNames : filename = n \o ".json"
    THEN CHOOSE n \in SessionNames : filename = n \o ".json"
    ELSE filename

\* What the user types as a message.
Text(i) == [kind |-> "text", nonempty |-> TRUE, labels |-> {}, n |-> i]

UserText == Text(0)

\* What a custom summarizer function returns when it returns.
CustomText == [kind |-> "custom", nonempty |-> TRUE, labels |-> {}, n |-> 0]

\* What the backend's answer is after .strip() when the call succeeds.
ModelText == [kind |-> "model", nonempty |-> TRUE, labels |-> {}, n |-> 0]

NoMetadata == [type |-> "absent", compressed_count |-> 0]

MetricsMetadata == [type |-> "metrics", compressed_count |-> 0]

SummaryMetadata(n) == [type |-> "summary", compressed_count |-> n]

\* The (role, metadata) pairs main.py passes to add_message: user turns without
\* metadata and assistant turns with response metrics.
LoopAddInputs == {<<"user", NoMetadata>>, <<"assistant", MetricsMetadata>>}

\* The pairs offered to add_message by SpecCompaction.
AddInputs == LoopAddInputs \cup {<<"tool", NoMetadata>>}

\* The values offered to the other mutators (temperature in tenths).
DefaultTemperature == 7

TemperatureInputs == {Some(10)}

MaxTokensInputs == {None, Some(100)}

\* The values a caller of the methods can pass (SpecSettings): main.py
\* checks what the user types, the methods take any number.
AnyMaxTokensInputs == {None, Some(-1), Some(0), Some(100)}

AnyTemperatureInputs == {None, Some(-5), Some(10)}

SystemPromptInputs == {"be brief"}

\* The prompts of SpecLoop: main.py starts with SYSTEM_PROMPT = "", and the
\* change_system_prompt command takes any line, the empty one included.
LoopSystemPrompts == {"", "be brief"}

\* What the user types in the chat turns of SpecLoop (two different lines).
UserTexts == {Text(0), Text(1)}

\* The content of the assistant's reply.
ReplyText == [kind |-> "reply", nonempty |-> TRUE, labels |-> {}, n |-> 0]

\* A system prompt as the content of an entry of the request.
PromptText(p) ==
    [kind |-> "prompt", nonempty |-> p # "", labels |-> {}, n |-> Len(p)]

ClientInputs == {None, Some("client")}

CustomSummarizerInputs == {None, Some("function")}

\* (prompt_tokens, completion_tokens, total_tokens) reported by one request.
UsageInputs == {<<1, 1, 2>>}

\* update_token_stats is offered while request_count is below this.
MaxRequests == 1

\* SpecNormalize: the longest list handed to _normalize_tail.
MaxTail == 5

\* SpecClock: the clock ticks while its reading is below this.
MaxClock == 3

ZeroTokens ==
    [prompt_tokens |-> 0, completion_tokens |-> 0, total_tokens |-> 0,
     request_count |-> 0]

Message(role, content, timestamp, metadata) ==
    [role |-> role, content |-> content, timestamp |-> timestamp,
     metadata |-> metadata]

\* The op field of a call that appended nothing.
NoMessage == Message("none", Text(0), 0, NoMetadata)

----------------------------------------------------------------------------
(* Python slicing: s[:k] and s[k:] for any integer k *)

SliceIndex(k, n) == IF k < 0 THEN Max(n + k, 0) ELSE Min(k, n)

SliceTo(s, k) == SubSeq(s, 1, SliceIndex(k, Len(s)))

SliceFrom(s, k) == SubSeq(s, SliceIndex(k, Len(s)) + 1, Len(s))

----------------------------------------------------------------------------
(* ChatHistory._normalize_tail *)

DropLeading_None(tail) == tail

DropLeading_Once(tail) ==
    IF tail # <<>> /\ tail[1].role \notin {"user", "tool"}
    THEN Tail(tail)
    ELSE tail

RECURSIVE DropLeading(_)
DropLeading(tail) ==
    IF tail # <<>> /\ tail[1].role \notin {"user", "tool"}
    THEN DropLeading(Tail(tail))
    ELSE tail

RECURSIVE DropDuplicateRoles_KeepLast(_, _)
DropDuplicateRoles_KeepLast(normalized, rest) ==
    IF rest = <<>> THEN normalized
    ELSE IF rest[1].role = normalized[Len(normalized)].role
         THEN DropDuplicateRoles_KeepLast(
                  Append(SubSeq(normalized, 1, Len(normalized) - 1), rest[1]),
                  Tail(rest))
         ELSE DropDuplicateRoles_KeepLast(Append(normalized, rest[1]), Tail(rest))

RECURSIVE DropDuplicateRoles(_, _)
DropDuplicateRoles(normalized, rest) ==
    IF rest = <<>> THEN normalized
    ELSE IF rest[1].role = normalized[Len(normalized)].role
         THEN DropDuplicateRoles(normalized, Tail(rest))
         ELSE DropDuplicateRoles(Append(normalized, rest[1]), Tail(rest))

NormalizeTail_KeepLeading(tail) ==
    IF tail = <<>> THEN <<>> ELSE DropDuplicateRoles(<<tail[1]>>, Tail(tail))

NormalizeTail(tail) ==
    LET t == DropLeading(tail)
    IN  IF t = <<>> THEN <<>> ELSE DropDuplicateRoles(<<t[1]>>, Tail(t))

----------------------------------------------------------------------------
(* ChatHistory._run_summarizer *)

\* The text built in the except branch: the five field lines, the last one
\* holding one transcript line per message.
FallbackText(msgs) ==
    [kind |-> "fallback", nonempty |-> TRUE, labels |-> FieldLabels, n |-> Len(msgs)]

\* behave: whether the function or backend that ends up being called returns or
\* raises. raised: whether an exception leaves _run_summarizer. path: the branch
\* taken.
SummarizerResult(raised, text, path) ==
    [raised |-> raised, text |-> text, path |-> path]

RunSummarizer_Propagate(msgs, custom, client, behave) ==
    IF custom # None
    THEN IF behave = "returns"
         THEN SummarizerResult(FALSE, CustomText, "custom")
         ELSE SummarizerResult(TRUE, Text(0), "custom_raised")
    ELSE IF client = None
         THEN SummarizerResult(TRUE, Text(0), "no_backend")
         ELSE IF behave = "returns"
              THEN SummarizerResult(FALSE, ModelText, "model")
              ELSE SummarizerResult(TRUE, Text(0), "backend_raised")

RunSummarizer(msgs, custom, client, behave) ==
    IF custom # None
    THEN IF behave = "returns"
         THEN SummarizerResult(FALSE, CustomText, "custom")
         ELSE SummarizerResult(FALSE, FallbackText(msgs), "custom_raised")
    ELSE IF client = None
         THEN SummarizerResult(FALSE, FallbackText(msgs), "no_backend")
         ELSE IF behave = "returns"
              THEN SummarizerResult(FALSE, ModelText, "model")
              ELSE SummarizerResult(FALSE, FallbackText(msgs), "backend_raised")

----------------------------------------------------------------------------
(* ChatHistory._maybe_compress *)

\* messages: the list the method leaves; fired: whether it replaced the list;
\* calls: how often it invoked the summarizer; raised: whether it raised.
CompressResult(msgs, fired, calls, raised, path) ==
    [messages |-> msgs, fired |-> fired, calls |-> calls, raised |-> raised,
     path |-> path]

Unchanged(msgs) == CompressResult(msgs, FALSE, 0, FALSE, "not_called")

Compressed_CountsAll(msgs, ca, custom, client, behave) ==
    LET to_summarize == SliceTo(msgs, -ca)
        s == RunSummarizer(to_summarize, custom, client, behave)
        summary_message ==
            Message("system", s.text, now, SummaryMetadata(Len(msgs)))
        tail == NormalizeTail(SliceFrom(msgs, -ca))
    IN  IF s.raised
        THEN CompressResult(msgs, FALSE, 1, TRUE, s.path)
        ELSE CompressResult(<<summary_message>> \o tail, TRUE, 1, FALSE, s.path)

Compressed_SummaryLast(msgs, ca, custom, client, behave) ==
    LET to_summarize == SliceTo(msgs, -ca)
        s == RunSummarizer(to_summarize, custom, client, behave)
        summary_message ==
            Message("system", s.text, now, SummaryMetadata(Len(to_summarize)))
        tail == NormalizeTail(SliceFrom(msgs, -ca))
    IN  IF s.raised
        THEN CompressResult(msgs, FALSE, 1, TRUE, s.path)
        ELSE CompressResult(tail \o <<summary_message>>, TRUE, 1, FALSE, s.path)

Compressed_OldStamp(msgs, ca, custom, client, behave) ==
    LET to_summarize == SliceTo(msgs, -ca)
        s == RunSummarizer(to_summarize, custom, client, behave)
        summary_message ==
            Message("system", s.text, to_summarize[1].timestamp,
                    SummaryMetadata(Len(to_summarize)))
        tail == NormalizeTail(SliceFrom(msgs, -ca))
    IN  IF s.raised
        THEN CompressResult(msgs, FALSE, 1, TRUE, s.path)
        ELSE CompressResult(<<summary_message>> \o tail, TRUE, 1, FALSE, s.path)

Compressed_LongTail(msgs, ca, custom, client, behave) ==
    LET to_summarize == SliceTo(msgs, -ca)
        s == RunSummarizer(to_summarize, custom, client, behave)
        summary_message ==
            Message("system", s.text, now, SummaryMetadata(Len(to_summarize)))
        tail == NormalizeTail(SliceFrom(msgs, -(ca + 1)))
    IN  IF s.raised
        THEN CompressResult(msgs, FALSE, 1, TRUE, s.path)
        ELSE CompressResult(<<summary_message>> \o tail, TRUE, 1, FALSE, s.path)

Compressed(msgs, ca, custom, client, behave) ==
    LET to_summarize == SliceTo(msgs, -ca)
        s == RunSummarizer(to_summarize, custom, client, behave)
        summary_message ==
            Message("system", s.text, now, SummaryMetadata(Len(to_summarize)))
        tail == NormalizeTail(SliceFrom(msgs, -ca))
    IN  IF s.raised
        THEN CompressResult(msgs, FALSE, 1, TRUE, s.path)
        ELSE CompressResult(<<summary_message>> \o tail, TRUE, 1, FALSE, s.path)

MaybeCompress_OffByOne(msgs, ca, custom, client, behave) ==
    IF Len(msgs) <= ca - 1 THEN Unchanged(msgs)
    ELSE LET to_summarize == SliceTo(msgs, -(ca - 1))
         IN  IF to_summarize = <<>> THEN Unchanged(msgs)
             ELSE IF Len(to_summarize) = 1
                     /\ to_summarize[1].metadata.type = "summary"
                  THEN Unchanged(msgs)
                  ELSE Compressed(msgs, ca - 1, custom, client, behave)

MaybeCompress_GuardsAnyPrefix(msgs, ca, custom, client, behave) ==
    IF Len(msgs) <= ca THEN Unchanged(msgs)
    ELSE LET to_summarize == SliceTo(msgs, -ca)
         IN  IF to_summarize = <<>> THEN Unchanged(msgs)
             ELSE IF to_summarize[1].metadata.type = "summary"
                  THEN Unchanged(msgs)
                  ELSE Compressed(msgs, ca, custom, client, behave)

MaybeCompress_NoSummaryGuard(msgs, ca, custom, client, behave) ==
    IF Len(msgs) <= ca THEN Unchanged(msgs)
    ELSE LET to_summarize == SliceTo(msgs, -ca)
         IN  IF to_summarize = <<>> THEN Unchanged(msgs)
             ELSE Compressed(msgs, ca, custom, client, behave)

MaybeCompress(msgs, ca, custom, client, behave) ==
    IF Len(msgs) <= ca THEN Unchanged(msgs)
    ELSE LET to_summarize == SliceTo(msgs, -ca)
         IN  IF to_summarize = <<>> THEN Unchanged(msgs)
             ELSE IF Len(to_summarize) = 1
                     /\ to_summarize[1].metadata.type = "summary"
                  THEN Unchanged(msgs)
                  ELSE Compressed(msgs, ca, custom, client, behave)

----------------------------------------------------------------------------
(* ChatHistory._save_session and the JSON document *)

\* json.dump of an optional number / string: None becomes null.
JsonNumber(x) ==
    IF x = None THEN [json |-> "null", v |-> 0] ELSE [json |-> "number", v |-> x[1]]

JsonString(x) ==
    IF x = None THEN [json |-> "null", v |-> ""] ELSE [json |-> "string", v |-> x[1]]

\* json.load of them.
FromJsonNumber_NullIsZero(j) == IF j.json = "null" THEN Some(0) ELSE Some(j.v)

FromJsonNumber(j) == IF j.json = "null" THEN None ELSE Some(j.v)

FromJsonString(j) == IF j.json = "null" THEN None ELSE Some(j.v)

\* The dict _save_session writes ("created" is a timestamp no reader uses).
Document(msgs, sp, temp, mt, ca, tokens) ==
    [json |-> "object",
     message_count |-> Len(msgs),
     system_prompt |-> JsonString(sp),
     temperature |-> JsonNumber(temp),
     max_tokens |-> JsonNumber(mt),
     compress_after |-> ca,
     session_tokens |-> tokens,
     messages |-> msgs]

SaveSession_Skip(d, sf, doc) == d

SaveSession(d, sf, doc) ==
    IF sf = None THEN d ELSE [d EXCEPT ![sf[1]] = Some(doc)]

\* A file content that is no JSON document: kind says what it is, msgs what
\* of the messages it shows.
NotJson(kind, msgs) ==
    [Document(msgs, None, None, None, 0, ZeroTokens) EXCEPT !.json = kind]

\* The text export_history writes: a header and one block per message. No
\* code reads it back; the model keeps the number of blocks.
Transcript(msgs) ==
    [NotJson("transcript", <<>>) EXCEPT !.message_count = Len(msgs)]

\* How the open(..., 'w') / json.dump pair of _save_session can end: both
\* succeed, open raises (the file is as it was), or json.dump raises after
\* open has truncated the file (a part of the text is in the file).
SaveOutcomes == {"ok", "open_raises", "dump_raises"}

\* _save_session returns before touching the disk when no session is open.
SaveRaises(sf, io) == sf # None /\ io # "ok"

\* The disk after a _save_session that raised.
FailedSave(d, sf, io) ==
    IF io = "dump_raises"
    THEN [d EXCEPT ![sf[1]] = Some(NotJson("truncated", <<>>))]
    ELSE d

\* Whether load_session reads the file: it exists and json.load accepts it.
Loadable_IgnoresTruncation(file) == file # None

Loadable(file) == file # None /\ file[1].json = "object"

\* What the last call was and how it went: the method, "ok" / "raised" /
\* "false", the message it appended (add_message), its integer argument
\* (set_compress_after), what _maybe_compress did inside it, the file it
\* named (create_session, load_session, export_history) and the list it
\* returned (get_messages_for_api).
Op(name, result, arg, value, c) ==
    [name |-> name, result |-> result, arg |-> arg, value |-> value,
     fired |-> c.fired, calls |-> c.calls, path |-> c.path,
     file |-> "", ret |-> <<>>]

Plain(name, result) == Op(name, result, NoMessage, 0, Unchanged(<<>>))

----------------------------------------------------------------------------
(* MCPClient (src/mcp_client.py): tool discovery over HTTP *)

\* A tool list is the sequence of the names of its tools.
ToolLists == {<<>>, <<"t">>}

\* What the server does with one request: kind says whether an answer came
\* and what JSON it was, tools which tools it lists.
Answer(kind, tools) == [kind |-> kind, tools |-> tools]

\* No connection, an HTTP error status, or a body that is no JSON.
Unreachable == Answer("unreachable", <<>>)

\* POST /mcp, method tools/list: {"result": [...]}, {"result": {"tools":
\* [...]}} (a missing "tools" key is the empty list), {"result": <neither>},
\* {"error": {...}}, a bare list, a dict with neither key, a string or number.
RpcAnswers ==
    {Unreachable, Answer("error", <<>>), Answer("result_other", <<>>),
     Answer("bare_other", <<>>)}
    \cup {Answer(k, t) : k \in {"result_list", "result_tools", "bare_list",
                                "bare_tools"},
                        t \in ToolLists}

\* A GET endpoint: a list, a dict (a missing "tools" key is the empty list),
\* or JSON that is neither.
GetAnswers ==
    {Unreachable, Answer("other", <<>>)}
    \cup {Answer(k, t) : k \in {"list", "tools"}, t \in ToolLists}

DirectEndpoints == <<"GET /tools", "GET /mcp/tools", "GET /api/tools">>

Servers ==
    [rpc : RpcAnswers,
     direct : [1..Len(DirectEndpoints) -> GetAnswers],
     sse : GetAnswers]

\* How one discovery strategy ended and the requests it sent.
Attempt(raised, tools, sent) == [raised |-> raised, tools |-> tools, sent |-> sent]

\* The kinds of answer on which _try_jsonrpc_method raises.
RpcRaises == {"unreachable", "error", "bare_other"}

TryJsonrpcMethod(server) ==
    Attempt(server.rpc.kind \in RpcRaises, server.rpc.tools, <<"POST /mcp">>)

\* The first endpoint that answers with a list or a dict ends the loop.
TryDirectEndpoint(server) ==
    LET hits == {i \in 1..Len(DirectEndpoints) :
                     server.direct[i].kind \in {"list", "tools"}}
    IN  IF hits = {}
        THEN Attempt(TRUE, <<>>, DirectEndpoints)
        ELSE LET i == CHOOSE h \in hits : \A g \in hits : h <= g
             IN  Attempt(FALSE, server.direct[i].tools,
                         SubSeq(DirectEndpoints, 1, i))

TrySseEndpoint(server) ==
    Attempt(server.sse.kind \notin {"list", "tools"}, server.sse.tools,
            <<"GET /sse/tools">>)

\* The outcome of a call on the client.
McpCall(name, raised, tools, via, sent) ==
    [name |-> name, raised |-> raised, tools |-> tools, via |-> via,
     sent |-> sent, connected |-> ~raised]

\* list_tools: `if tools: return tools` passes over a strategy that returned
\* an empty list as it passes over one that raised; behind the loop the last
\* exception, if there was one, is raised.
ListTools(server) ==
    LET a1 == TryJsonrpcMethod(server)
        a2 == TryDirectEndpoint(server)
        a3 == TrySseEndpoint(server)
        got(a) == ~a.raised /\ a.tools # <<>>
    IN  IF got(a1) THEN McpCall("list_tools", FALSE, a1.tools, "jsonrpc", a1.sent)
        ELSE IF got(a2)
        THEN McpCall("list_tools", FALSE, a2.tools, "direct", a1.sent \o a2.sent)
        ELSE IF got(a3)
        THEN McpCall("list_tools", FALSE, a3.tools, "sse",
                     a1.sent \o a2.sent \o a3.sent)
        ELSE McpCall("list_tools", a1.raised \/ a2.raised \/ a3.raised, <<>>,
                     "none", a1.sent \o a2.sent \o a3.sent)

NoMcpCall == McpCall("__init__", FALSE, <<>>, "none", <<>>)

list_tools ==
    /\ mcp_op' = ListTools(mcp_server)
    /\ UNCHANGED <<mcp_server, objvars, ntvars, now>>

\* test_connection: True unless list_tools raised.
test_connection ==
    /\ mcp_op' = [ListTools(mcp_server) EXCEPT !.name = "test_connection",
                                              !.tools = <<>>]
    /\ UNCHANGED <<mcp_server, objvars, ntvars, now>>

\* get_tool_info(tool_name): the tool of that name in the list, or None.
get_tool_info(tool_name) ==
    /\ LET l == ListTools(mcp_server)
       IN  mcp_op' = [l EXCEPT !.name = "get_tool_info",
                               !.tools = SelectSeq(l.tools,
                                             LAMBDA t : t = tool_name)]
    /\ UNCHANGED <<mcp_server, objvars, ntvars, now>>

----------------------------------------------------------------------------
(* The object after ChatHistory(compress_after = c) *)

InitObject ==
    /\ messages = <<>>
    /\ session_file = None
    /\ system_prompt = None
    /\ temperature = Some(DefaultTemperature)
    /\ max_tokens = None
    /\ compress_after \in CtorCompressAfter
    /\ session_tokens = ZeroTokens
    /\ summarizer = None
    /\ summarizer_client = None
    /\ disk = [f \in Files |-> None]
    /\ op = Plain("__init__", "ok")

Init ==
    /\ InitObject
    /\ nt_in = <<>>
    /\ nt_out = <<>>
    /\ nt_pc = "unused"
    /\ now = 0
    /\ mcp_server = [rpc |-> Unreachable,
                     direct |-> [i \in 1..Len(DirectEndpoints) |-> Unreachable],
                     sse |-> Unreachable]
    /\ mcp_op = NoMcpCall

CurrentDocument ==
    Document(messages, system_prompt, temperature, max_tokens, compress_after,
             session_tokens)

----------------------------------------------------------------------------
(* The methods *)

create_session(name) ==
    /\ session_file' = Some(name)
    /\ messages' = <<>>
    /\ temperature' = temperature
    /\ max_tokens' = None
    /\ session_tokens' = ZeroTokens
    /\ disk' = SaveSession(disk, Some(name),
                   Document(<<>>, system_prompt, temperature, None,
                            compress_after, ZeroTokens))
    /\ op' = [Plain("create_session", "ok") EXCEPT !.file = name]
    /\ UNCHANGED <<system_prompt, compress_after, summarizer, summarizer_client>>
    /\ UNCHANGED <<ntvars, now, mcpvars>>

load_session(name) ==
    /\ IF ~Loadable(disk[name])
       THEN /\ op' = [Plain("load_session", "false") EXCEPT !.file = name]
            /\ UNCHANGED <<messages, session_file, system_prompt, temperature,
                           max_tokens, compress_after, session_tokens>>
       ELSE LET data == disk[name][1]
            IN  /\ messages' = data.messages
                /\ system_prompt' = FromJsonString(data.system_prompt)
                /\ temperature' = FromJsonNumber(data.temperature)
                /\ max_tokens' = FromJsonNumber(data.max_tokens)
                /\ compress_after' = data.compress_after
                /\ session_tokens' = data.session_tokens
                /\ session_file' = Some(name)
                /\ op' = [Plain("load_session", "ok") EXCEPT !.file = name]
    /\ UNCHANGED <<summarizer, summarizer_client, disk>>
    /\ UNCHANGED <<ntvars, now, mcpvars>>

\* behave: what the summarizer does if it is called; io: how _save_session
\* ends if it is reached.
add_message(role, content, metadata, behave, io) ==
    LET message == Message(role, content, now, metadata)
        c == MaybeCompress(Append(messages, message), compress_after,
                           summarizer, summarizer_client, behave)
        save_raises == ~c.raised /\ SaveRaises(session_file, io)
    IN  /\ messages' = c.messages
        /\ disk' = IF c.raised THEN disk
                   ELSE IF save_raises THEN FailedSave(disk, session_file, io)
                   ELSE SaveSession(disk, session_file,
                            Document(c.messages, system_prompt, temperature,
                                     max_tokens, compress_after, session_tokens))
        /\ op' = Op("add_message",
                    IF c.raised \/ save_raises THEN "raised" ELSE "ok",
                    message, 0, c)
        /\ UNCHANGED <<session_file, system_prompt, temperature, max_tokens,
                       compress_after, session_tokens, summarizer,
                       summarizer_client>>
        /\ UNCHANGED <<ntvars, now, mcpvars>>

clear_history ==
    /\ messages' = <<>>
    /\ disk' = IF session_file # None
               THEN SaveSession(disk, session_file,
                        Document(<<>>, system_prompt, temperature, max_tokens,
                                 compress_after, session_tokens))
               ELSE disk
    /\ op' = Plain("clear_history", "ok")
    /\ UNCHANGED <<session_file, system_prompt, temperature, max_tokens,
                   compress_after, session_tokens, summarizer, summarizer_client>>
    /\ UNCHANGED <<ntvars, now, mcpvars>>

set_temperature(t) ==
    /\ temperature' = t
    /\ disk' = SaveSession(disk, session_file,
                   Document(messages, system_prompt, t, max_tokens,
                            compress_after, session_tokens))
    /\ op' = Plain("set_temperature", "ok")
    /\ UNCHANGED <<messages, session_file, system_prompt, max_tokens,
                   compress_after, session_tokens, summarizer, summarizer_client>>
    /\ UNCHANGED <<ntvars, now, mcpvars>>

set_max_tokens(m) ==
    /\ max_tokens' = m
    /\ disk' = SaveSession(disk, session_file,
                   Document(messages, system_prompt, temperature, m,
                            compress_after, session_tokens))
    /\ op' = Plain("set_max_tokens", "ok")
    /\ UNCHANGED <<messages, session_file, system_prompt, temperature,
                   compress_after, session_tokens, summarizer, summarizer_client>>
    /\ UNCHANGED <<ntvars, now, mcpvars>>

\* Whether set_compress_after(v) raises ValueError.
RejectsLimit_OffByOne(v) == v <= MinCompressAfter

RejectsLimit(v) == v < MinCompressAfter

\* The threshold set_compress_after(v) leaves when it does not raise.
AcceptedLimit(old, v) == v

set_compress_after(v) ==
    /\ IF RejectsLimit(v)
       THEN /\ op' = Op("set_compress_after", "raised", NoMessage, v,
                        Unchanged(<<>>))
            /\ UNCHANGED <<compress_after, disk>>
       ELSE /\ compress_after' = AcceptedLimit(compress_after, v)
            /\ disk' = SaveSession(disk, session_file,
                           Document(messages, system_prompt, temperature,
                                    max_tokens, compress_after', session_tokens))
            /\ op' = Op("set_compress_after", "ok", NoMessage, v, Unchanged(<<>>))
    /\ UNCHANGED <<messages, session_file, system_prompt, temperature,
                   max_tokens, session_tokens, summarizer, summarizer_client>>
    /\ UNCHANGED <<ntvars, now, mcpvars>>

set_summarizer(client, custom) ==
    /\ summarizer_client' = client
    /\ summarizer' = custom
    /\ op' = Plain("set_summarizer", "ok")
    /\ UNCHANGED <<messages, session_file, system_prompt, temperature,
                   max_tokens, compress_after, session_tokens, disk>>
    /\ UNCHANGED <<ntvars, now, mcpvars>>

\* The counters after update_token_stats(u[1], u[2], u[3]).
AddUsage_TotalOnly(tokens, u) ==
    [prompt_tokens |-> tokens.prompt_tokens,
     completion_tokens |-> tokens.completion_tokens,
     total_tokens |-> tokens.total_tokens + u[3],
     request_count |-> tokens.request_count + 1]

AddUsage(tokens, u) ==
    [prompt_tokens |-> tokens.prompt_tokens + u[1],
     completion_tokens |-> tokens.completion_tokens + u[2],
     total_tokens |-> tokens.total_tokens + u[3],
     request_count |-> tokens.request_count + 1]

update_token_stats(u) ==
    /\ session_tokens.request_count < MaxRequests
    /\ session_tokens' = AddUsage(session_tokens, u)
    /\ disk' = SaveSession(disk, session_file,
                   Document(messages, system_prompt, temperature, max_tokens,
                            compress_after, session_tokens'))
    /\ op' = Plain("update_token_stats", "ok")
    /\ UNCHANGED <<messages, session_file, system_prompt, temperature,
                   max_tokens, compress_after, summarizer, summarizer_client>>
    /\ UNCHANGED <<ntvars, now, mcpvars>>

\* main.py assigns history.system_prompt directly (at start-up and on the
\* change_system_prompt command).
change_system_prompt(p) ==
    /\ system_prompt' = Some(p)
    /\ op' = Plain("change_system_prompt", "ok")
    /\ UNCHANGED <<messages, session_file, temperature, max_tokens,
                   compress_after, session_tokens, summarizer,
                   summarizer_client, disk>>
    /\ UNCHANGED <<ntvars, now, mcpvars>>

\* export_history(filename): the transcript of the messages in memory is
\* written to history_dir / filename, whatever file that is.
export_history(filename) ==
    /\ disk' = [disk EXCEPT ![FileKey(filename)] = Some(Transcript(messages))]
    /\ op' = [Plain("export_history", "ok") EXCEPT !.file = FileKey(filename)]
    /\ UNCHANGED <<messages, session_file, system_prompt, temperature,
                   max_tokens, compress_after, session_tokens, summarizer,
                   summarizer_client>>
    /\ UNCHANGED <<ntvars, now, mcpvars>>

\* The list get_messages_for_api returns: `if self.system_prompt:` is false
\* for None and for the empty string.
ApiEntry(role, content) == [role |-> role, content |-> content]

GetMessagesForApi_NoSystemEntry(sp, msgs) ==
    [i \in 1..Len(msgs) |-> ApiEntry(msgs[i].role, msgs[i].content)]

GetMessagesForApi(sp, msgs) ==
    (IF sp # None /\ sp[1] # ""
     THEN <<ApiEntry("system", PromptText(sp[1]))>>
     ELSE <<>>)
    \o [i \in 1..Len(msgs) |-> ApiEntry(msgs[i].role, msgs[i].content)]

get_messages_for_api ==
    /\ op' = [Plain("get_messages_for_api", "ok")
                 EXCEPT !.ret = GetMessagesForApi(system_prompt, messages)]
    /\ UNCHANGED <<messages, session_file, system_prompt, temperature,
                   max_tokens, compress_after, session_tokens, summarizer,
                   summarizer_client, disk>>
    /\ UNCHANGED <<ntvars, now, mcpvars>>

\* One chat turn of main.py's loop (the else branch): add_message of the
\* user's line, get_messages_for_api, the completion call, and when that
\* returns update_token_stats and add_message of the reply with its metrics.
\* When the call raises, the handler of the loop prints the error and the
\* loop reads the next line. behave and behave2: what the summarizer does if
\* the first and the second add_message call it.
chat_turn(text, completion, u, behave, behave2) ==
    LET user == Message("user", text, now, NoMetadata)
        c == MaybeCompress(Append(messages, user), compress_after,
                           summarizer, summarizer_client, behave)
        request == GetMessagesForApi(system_prompt, c.messages)
        tokens == AddUsage(session_tokens, u)
        reply == Message("assistant", ReplyText, now, MetricsMetadata)
        c2 == MaybeCompress(Append(c.messages, reply), compress_after,
                            summarizer, summarizer_client, behave2)
    IN  /\ IF completion = "raises"
           THEN /\ messages' = c.messages
                /\ session_tokens' = session_tokens
                /\ disk' = SaveSession(disk, session_file,
                               Document(c.messages, system_prompt, temperature,
                                        max_tokens, compress_after,
                                        session_tokens))
                /\ op' = [Op("chat_turn", "completion_raised", user, 0, c)
                            EXCEPT !.ret = request]
           ELSE /\ session_tokens.request_count < MaxRequests
                /\ messages' = c2.messages
                /\ session_tokens' = tokens
                /\ disk' = SaveSession(disk, session_file,
                               Document(c2.messages, system_prompt, temperature,
                                        max_tokens, compress_after, tokens))
                /\ op' = [Op("chat_turn", "ok", user, 0, c2)
                            EXCEPT !.ret = request]
        /\ UNCHANGED <<session_file, system_prompt, temperature, max_tokens,
                       compress_after, summarizer, summarizer_client>>
        /\ UNCHANGED <<ntvars, now, mcpvars>>

----------------------------------------------------------------------------
(* Spec: a command loop like main.py's on one session file. It makes every   *)
(* call main.py makes, with the kinds of arguments main.py passes, on a file *)
(* system where every write succeeds (SpecStore has the failing writes).     *)

Next ==
    \/ \E name \in SessionNames : create_session(name)
    \/ \E name \in SessionNames : load_session(name)
    \/ \E a \in LoopAddInputs, behave \in {"returns", "raises"} :
           add_message(a[1], UserText, a[2], behave, "ok")
    \/ clear_history
    \/ \E t \in TemperatureInputs : set_temperature(t)
    \/ \E m \in MaxTokensInputs : set_max_tokens(m)
    \/ \E v \in LoopLimitInputs : set_compress_after(v)
    \/ set_summarizer(Some("client"), None)
    \/ \E u \in UsageInputs : update_token_stats(u)
    \/ \E p \in SystemPromptInputs : change_system_prompt(p)

Spec == Init /\ [][Next]_vars

----------------------------------------------------------------------------
(* SpecCompaction: any client of the methods that read or write the fields   *)
(* _maybe_compress depends on (messages, compress_after, the summarizer      *)
(* configuration), with no session file open. Sessions add no (messages,     *)
(* compress_after) pair: load_session restores a pair that was saved from    *)
(* memory, create_session empties the list as clear_history does.            *)

NextCompaction ==
    \/ \E a \in AddInputs, behave \in {"returns", "raises"} :
           add_message(a[1], UserText, a[2], behave, "ok")
    \/ clear_history
    \/ \E v \in LimitInputs : set_compress_after(v)
    \/ \E client \in ClientInputs, custom \in CustomSummarizerInputs :
           set_summarizer(client, custom)

SpecCompaction == Init /\ [][NextCompaction]_vars

\* The same, for objects constructed with a threshold set_compress_after would
\* accept: compress_after >= 4 throughout.
InitValid == Init /\ compress_after >= MinCompressAfter

SpecCompactionValid == InitValid /\ [][NextCompaction]_vars

----------------------------------------------------------------------------
(* SpecStore: the session store on a file system where a write can fail and  *)
(* where export_history is given any file name. A session is created,        *)
(* loaded, appended to, cleared and exported.                                *)

NextStore ==
    \/ \E name \in SessionNames : create_session(name)
    \/ \E name \in SessionNames : load_session(name)
    \/ \E a \in LoopAddInputs, io \in SaveOutcomes :
           add_message(a[1], UserText, a[2], "returns", io)
    \/ clear_history
    \/ \E filename \in ExportTargets : export_history(filename)

SpecStore == InitValid /\ [][NextStore]_vars

----------------------------------------------------------------------------
(* SpecLoop: the command loop of main.py with whole chat turns: a turn whose *)
(* completion call raises leaves the user's line without a reply. The start  *)
(* of main (create_session, system_prompt = SYSTEM_PROMPT, set_summarizer)   *)
(* and the commands new, clear, change_system_prompt and limit are steps.    *)

NextLoop ==
    \/ \E name \in SessionNames : create_session(name)
    \/ \E text \in UserTexts, completion \in {"returns", "raises"},
          u \in UsageInputs, behave \in {"returns", "raises"} :
           chat_turn(text, completion, u, behave, behave)
    \/ get_messages_for_api
    \/ clear_history
    \/ \E v \in LoopLimitInputs : set_compress_after(v)
    \/ set_summarizer(Some("client"), None)
    \/ \E p \in LoopSystemPrompts : change_system_prompt(p)

SpecLoop == InitValid /\ [][NextLoop]_vars

----------------------------------------------------------------------------
(* SpecClock: messages are appended while time passes. datetime.now() never  *)
(* goes back here: a tick adds one to the reading, and add_message reads the *)
(* clock for the message and, when it compacts, for the summary. (In the     *)
(* other specifications no time passes: every timestamp is 0.)               *)

tick ==
    /\ now < MaxClock
    /\ now' = now + 1
    /\ UNCHANGED <<objvars, ntvars, mcpvars>>

NextClock ==
    \/ tick
    \/ \E a \in LoopAddInputs : add_message(a[1], UserText, a[2], "returns", "ok")
    \/ clear_history

SpecClock == InitValid /\ [][NextClock]_vars

----------------------------------------------------------------------------
(* SpecSettings: any client of the settings mutators on one session file,    *)
(* passing whatever numbers it likes.                                        *)

NextSettings ==
    \/ \E name \in SessionNames : create_session(name)
    \/ \E name \in SessionNames : load_session(name)
    \/ \E a \in LoopAddInputs : add_message(a[1], UserText, a[2], "returns", "ok")
    \/ \E t \in AnyTemperatureInputs : set_temperature(t)
    \/ \E m \in AnyMaxTokensInputs : set_max_tokens(m)
    \/ \E v \in LimitInputs : set_compress_after(v)

SpecSettings == InitValid /\ [][NextSettings]_vars

----------------------------------------------------------------------------
(* SpecMcp: an MCPClient in front of a server that answers each of the five  *)
(* requests in one of the ways above; the client is called any number of     *)
(* times.                                                                    *)

InitMcp ==
    /\ InitObject
    /\ compress_after >= MinCompressAfter
    /\ nt_in = <<>>
    /\ nt_out = <<>>
    /\ nt_pc = "unused"
    /\ now = 0
    /\ mcp_server \in Servers
    /\ mcp_op = NoMcpCall

NextMcp ==
    \/ list_tools
    \/ test_connection
    \/ \E tool_name \in {"t", "u"} : get_tool_info(tool_name)

SpecMcp == InitMcp /\ [][NextMcp]_vars

----------------------------------------------------------------------------
(* SpecNormalize: _normalize_tail applied to every list of at most MaxTail   *)
(* messages over the four roles, then applied again to its own result. The   *)
(* i-th message of the input carries Text(i), so that every message of the   *)
(* input is a different value.                                               *)

RoleSeqs(n) == UNION {[1..k -> Roles] : k \in 0..n}

TailOf(rs) == [i \in 1..Len(rs) |-> Message(rs[i], Text(i), 0, NoMetadata)]

InitNormalize ==
    /\ InitObject
    /\ nt_in \in {TailOf(rs) : rs \in RoleSeqs(MaxTail)}
    /\ nt_out = <<>>
    /\ nt_pc = "input"
    /\ now = 0
    /\ mcp_server = [rpc |-> Unreachable,
                     direct |-> [i \in 1..Len(DirectEndpoints) |-> Unreachable],
                     sse |-> Unreachable]
    /\ mcp_op = NoMcpCall

normalize_input ==
    /\ nt_pc = "input"
    /\ nt_out' = <<NormalizeTail(nt_in)>>
    /\ nt_pc' = "once"
    /\ UNCHANGED <<nt_in, objvars, now, mcpvars>>

normalize_again ==
    /\ nt_pc = "once"
    /\ nt_out' = Append(nt_out, NormalizeTail(nt_out[1]))
    /\ nt_pc' = "twice"
    /\ UNCHANGED <<nt_in, objvars, now, mcpvars>>

NextNormalize ==
    \/ normalize_input
    \/ normalize_again

SpecNormalize == InitNormalize /\ [][NextNormalize]_vars

----------------------------------------------------------------------------
(* Properties of the compaction step, checked under SpecCompaction.          *)
(* In a step of add_message, Append(messages, op'.arg) is the list           *)
(* _maybe_compress is run on and messages' is the list it leaves.            *)

AddStep == op'.name = "add_message"

Handed == Append(messages, op'.arg)

\* The number of messages older than the last compress_after ones.
PrefixLen == Len(Handed) - compress_after

ClaimedPrefix == SubSeq(Handed, 1, PrefixLen)

ClaimedTail == SubSeq(Handed, PrefixLen + 1, Len(Handed))

SummaryFirst(msgs, count) ==
    /\ msgs # <<>>
    /\ msgs[1].metadata.type = "summary"
    /\ msgs[1].metadata.compressed_count = count

\* C1 as claimed: whenever the list handed to _maybe_compress is longer than
\* compress_after, the list it leaves has length 1 + len(normalize(tail)) and
\* starts with a summary whose compressed_count is len(prefix). (C1 is checked
\* under SpecCompactionValid, so that nothing rests on a threshold below 4.)
C1_AsClaimed ==
    [][(AddStep /\ Len(Handed) > compress_after)
       => /\ Len(messages') = 1 + Len(NormalizeTail(ClaimedTail))
          /\ SummaryFirst(messages', PrefixLen)]_vars

\* C1 amended: the same, for the lists whose prefix is not a single message
\* that is itself a summary.
C1_Compaction ==
    [][(/\ AddStep
        /\ Len(Handed) > compress_after
        /\ ~(PrefixLen = 1 /\ Handed[1].metadata.type = "summary"))
       => /\ op'.result = "ok"
          /\ Len(messages') = 1 + Len(NormalizeTail(ClaimedTail))
          /\ SummaryFirst(messages', PrefixLen)]_vars

\* A compaction of a two-message prefix whose tail lost a message to
\* normalisation.
C1_Witness ==
    /\ op.name = "add_message"
    /\ op.fired
    /\ SummaryFirst(messages, 2)
    /\ Len(messages) < 1 + compress_after

\* C2: when the list handed to _maybe_compress is no longer than
\* compress_after, the list is left as it is and the summarizer is not invoked.
C2_BelowThresholdNoOp ==
    [][(AddStep /\ Len(Handed) <= compress_after)
       => /\ messages' = Handed
          /\ op'.calls = 0
          /\ ~op'.fired]_vars

\* An append that brought the list to exactly compress_after messages.
C2_Witness ==
    /\ op.name = "add_message"
    /\ op.result = "ok"
    /\ Len(messages) = compress_after
    /\ op.calls = 0

\* C3: when the prefix is exactly one message and that message is a summary,
\* the list is left as it is and the summarizer is not invoked.
C3_SingletonSummaryNoOp ==
    [][(/\ AddStep
        /\ PrefixLen = 1
        /\ Handed[1].metadata.type = "summary")
       => /\ messages' = Handed
          /\ op'.calls = 0
          /\ ~op'.fired]_vars

\* An append that left compress_after + 1 messages behind an existing summary.
C3_Witness ==
    /\ op.name = "add_message"
    /\ op.calls = 0
    /\ Len(messages) = compress_after + 1
    /\ messages[1].metadata.type = "summary"
    /\ messages[Len(messages)] = op.arg

FailurePaths == {"custom_raised", "backend_raised", "no_backend"}

\* C7: when the custom summarizer raises, the backend call raises or no backend
\* is configured, add_message completes, the list it leaves has length
\* 1 + len(normalize(tail)), and its summary text is non-empty and contains the
\* five field labels.
C7_FailuresAbsorbed ==
    [][(AddStep /\ op'.path \in FailurePaths)
       => /\ op'.result = "ok"
          /\ Len(messages') = 1 + Len(NormalizeTail(ClaimedTail))
          /\ SummaryFirst(messages', PrefixLen)
          /\ messages'[1].content.nonempty
          /\ FieldLabels \subseteq messages'[1].content.labels]_vars

\* A compaction whose custom summarizer raised.
C7_Witness ==
    /\ op.name = "add_message"
    /\ op.path = "custom_raised"
    /\ op.result = "ok"
    /\ messages[1].content.kind = "fallback"

C7_WitnessBackend ==
    /\ op.name = "add_message"
    /\ op.path = "backend_raised"
    /\ messages[1].content.kind = "fallback"

C7_WitnessNoBackend ==
    /\ op.name = "add_message"
    /\ op.path = "no_backend"
    /\ messages[1].content.kind = "fallback"

----------------------------------------------------------------------------
(* Properties of _normalize_tail, checked under SpecNormalize.               *)

Normalized == nt_out[1]

\* C4: the output of _normalize_tail is empty or starts with a user or tool
\* message, and no two adjacent output messages have the same role.
C4_StartsAndAlternates ==
    nt_pc # "input"
    => /\ Normalized = <<>> \/ Normalized[1].role \in {"user", "tool"}
       /\ \A i \in 1..(Len(Normalized) - 1) :
              Normalized[i].role # Normalized[i + 1].role

\* An input with a leading assistant message and a repeated role, normalised
\* to something.
C4_Witness ==
    /\ nt_pc = "once"
    /\ Len(nt_in) >= 4
    /\ nt_in[1].role = "assistant"
    /\ \E i \in 2..(Len(nt_in) - 1) :
           nt_in[i].role = "user" /\ nt_in[i + 1].role = "user"
    /\ Len(Normalized) >= 2

\* The first position of the input holding a user or tool message (past the
\* end when there is none).
FirstAccepted ==
    IF \E i \in 1..Len(nt_in) : nt_in[i].role \in {"user", "tool"}
    THEN CHOOSE i \in 1..Len(nt_in) :
             /\ nt_in[i].role \in {"user", "tool"}
             /\ \A j \in 1..(i - 1) : nt_in[j].role \notin {"user", "tool"}
    ELSE Len(nt_in) + 1

\* The positions that start a run of same-role messages after the dropped
\* leading part.
RunStarts ==
    {i \in FirstAccepted..Len(nt_in) :
         i = FirstAccepted \/ nt_in[i].role # nt_in[i - 1].role}

\* C5: the output is an order-preserving subsequence of the input, its
\* messages unchanged, and it holds exactly the first message of each run of
\* same-role messages after the dropped leading part.
C5_SubsequenceOfRunStarts ==
    nt_pc # "input"
    => /\ Len(Normalized) <= Len(nt_in)
       /\ Len(Normalized) = Cardinality(RunStarts)
       /\ \A j \in 1..Len(Normalized) :
              /\ Normalized[j].content.n \in RunStarts
              /\ Normalized[j] = nt_in[Normalized[j].content.n]
       /\ \A j \in 1..(Len(Normalized) - 1) :
              Normalized[j].content.n < Normalized[j + 1].content.n

\* An input whose second run has two messages, the first of which survived.
C5_Witness ==
    /\ nt_pc = "once"
    /\ Len(nt_in) = 4
    /\ nt_in[1].role = "system"
    /\ nt_in[2].role = "tool"
    /\ nt_in[3].role = "assistant"
    /\ nt_in[4].role = "assistant"
    /\ Normalized = <<nt_in[2], nt_in[3]>>

\* C6: normalising the output of _normalize_tail again gives the same list.
C6_Idempotent ==
    nt_pc = "twice" => nt_out[2] = nt_out[1]

\* A list that normalisation shortened, normalised twice.
C6_Witness ==
    /\ nt_pc = "twice"
    /\ Len(nt_out[1]) >= 2
    /\ Len(nt_out[1]) < Len(nt_in)
    /\ nt_out[2] = nt_out[1]

----------------------------------------------------------------------------
(* Properties of the settings and of persistence, checked under Spec.        *)

\* C8: set_compress_after(v) with v < 4 raises and changes neither the object
\* nor the files; with v >= 4 it sets compress_after to v, changes no other
\* field, and the document of the open session file equals the new state.
C8_SetCompressAfter ==
    [][op'.name = "set_compress_after"
       => /\ UNCHANGED <<messages, session_file, system_prompt, temperature,
                         max_tokens, session_tokens, summarizer,
                         summarizer_client>>
          /\ IF op'.value < 4
             THEN /\ op'.result = "raised"
                  /\ UNCHANGED <<compress_after, disk>>
             ELSE /\ op'.result = "ok"
                  /\ compress_after' = op'.value
                  /\ session_file # None
                     => disk'[session_file[1]] =
                            Some(Document(messages, system_prompt, temperature,
                                          max_tokens, op'.value, session_tokens))
                  /\ \A f \in DOMAIN disk :
                         Some(f) # session_file => disk'[f] = disk[f]]_vars

\* set_compress_after(3) rejected in an open, non-empty session whose threshold
\* was 4 and still is.
C8_Witness ==
    /\ op.name = "set_compress_after"
    /\ op.result = "raised"
    /\ op.value = 3
    /\ compress_after = 4
    /\ session_file # None
    /\ messages # <<>>
    /\ disk[session_file[1]][1].compress_after = 4

C8_WitnessAccepted ==
    /\ op.name = "set_compress_after"
    /\ op.result = "ok"
    /\ op.value = 4
    /\ session_file # None
    /\ disk[session_file[1]][1].compress_after = 4

\* C9 as claimed: compress_after >= 4 in every reachable state.
C9_ThresholdAtLeastMin == compress_after >= MinCompressAfter

\* The calls C10 counts as mutations made by the command loop.
LoopMutations ==
    {"add_message", "clear_history", "set_temperature", "set_max_tokens",
     "set_compress_after", "update_token_stats", "change_system_prompt"}

\* C10 as claimed: after every completed mutation made by the command loop the
\* document of the open session file equals the in-memory state. (Stated for
\* the thresholds set_compress_after accepts.)
C10_PersistedEqualsMemory ==
    (/\ op.name \in LoopMutations
     /\ op.result = "ok"
     /\ session_file # None
     /\ compress_after >= MinCompressAfter)
    => /\ disk[session_file[1]] # None
       /\ disk[session_file[1]][1] = CurrentDocument
       /\ disk[session_file[1]][1].message_count = Len(messages)

\* The same for the mutations made through a method of ChatHistory, and for
\* every field but system_prompt.
C10_ExceptSystemPrompt ==
    (/\ op.name \in LoopMutations
     /\ op.result = "ok"
     /\ session_file # None)
    => /\ disk[session_file[1]] # None
       /\ LET doc == disk[session_file[1]][1]
          IN  /\ doc.messages = messages
              /\ doc.message_count = Len(messages)
              /\ doc.temperature = JsonNumber(temperature)
              /\ doc.max_tokens = JsonNumber(max_tokens)
              /\ doc.compress_after = compress_after
              /\ doc.session_tokens = session_tokens
              /\ op.name # "change_system_prompt"
                 => doc.system_prompt = JsonString(system_prompt)

----------------------------------------------------------------------------
(* Properties of the session store under failing writes and malformed        *)
(* documents, checked under SpecStore.                                       *)

\* The fields load_session assigns.
LoadedFields ==
    <<messages, system_prompt, temperature, max_tokens, compress_after,
      session_tokens, session_file>>

\* C11 as claimed: after an add_message that raised, the messages in memory
\* are the messages of the open session's document on disk.
C11_RaisedAppendLeavesPersistedState ==
    (/\ op.name = "add_message"
     /\ op.result = "raised"
     /\ session_file # None)
    => /\ Loadable(disk[session_file[1]])
       /\ disk[session_file[1]][1].messages = messages

\* C12: a load_session of a file that is missing or that json.load rejects
\* returns False and leaves every field it would assign, and the disk, as
\* they were.
C12_FailedLoadTouchesNothing ==
    [][(op'.name = "load_session"
        /\ (disk[op'.file] = None \/ disk[op'.file][1].json # "object"))
       => /\ op'.result = "false"
          /\ UNCHANGED LoadedFields
          /\ UNCHANGED disk]_vars

\* A load of a truncated document refused in a session that has messages.
C12_Witness ==
    /\ op.name = "load_session"
    /\ op.result = "false"
    /\ disk[op.file] # None
    /\ disk[op.file][1].json = "truncated"
    /\ session_file # None
    /\ messages # <<>>

\* A load of a missing file refused.
C12_WitnessMissing ==
    /\ op.name = "load_session"
    /\ op.result = "false"
    /\ disk[op.file] = None

\* C13: when the document of a session is the one _save_session writes for
\* the state in memory, load_session of that session succeeds and leaves
\* messages, system_prompt, temperature, max_tokens, compress_after and the
\* usage counters as they are.
C13_RoundTrip ==
    [][(op'.name = "load_session" /\ disk[op'.file] = Some(CurrentDocument))
       => /\ op'.result = "ok"
          /\ UNCHANGED <<messages, system_prompt, temperature, max_tokens,
                         compress_after, session_tokens>>]_vars

\* A session reloaded from its own document: a summary and a later message,
\* a system prompt, a changed temperature, no max_tokens, counted requests.
C13_Witness ==
    /\ op.name = "load_session"
    /\ op.result = "ok"
    /\ disk[op.file] = Some(CurrentDocument)
    /\ Len(messages) >= 2
    /\ messages[1].metadata.type = "summary"
    /\ system_prompt # None
    /\ temperature # Some(DefaultTemperature)
    /\ max_tokens = None
    /\ session_tokens.request_count > 0

----------------------------------------------------------------------------
(* Properties of the chat loop, checked under SpecLoop.                      *)

\* A chat turn whose completion call raised, in an open session.
FailedTurn ==
    /\ op'.name = "chat_turn"
    /\ op'.result = "completion_raised"
    /\ session_file # None

\* Whether message m is one of msgs.
Present(m, msgs) == \E i \in 1..Len(msgs) : msgs[i] = m

\* C14 as claimed: after a chat turn whose completion call raised, the user's
\* message is in the persisted document of the session, no assistant message
\* was added, and the usage counters are what they were.
C14_FailedTurnKeepsUserMessage ==
    [][FailedTurn
       => /\ Loadable(disk'[session_file[1]])
          /\ Present(op'.arg, disk'[session_file[1]][1].messages)
          /\ \A i \in 1..Len(messages') :
                 messages'[i].role = "assistant" => Present(messages'[i], messages)
          /\ session_tokens' = session_tokens]_vars

\* The fields of the object other than the record of the last call.
SessionState ==
    <<messages, session_file, system_prompt, temperature, max_tokens,
      compress_after, session_tokens, summarizer, summarizer_client>>

\* The list the claim describes when the first `lead` entries are the system
\* entry: lead entries, then one {role, content} per stored message in order.
ApiListIs(ret, lead) ==
    /\ Len(ret) = lead + Len(messages)
    /\ lead = 1 => ret[1] = ApiEntry("system", PromptText(system_prompt[1]))
    /\ \A i \in 1..Len(messages) :
           ret[lead + i] = ApiEntry(messages[i].role, messages[i].content)

\* C15 as claimed: get_messages_for_api returns the system entry whenever
\* system_prompt is set (is not None), then one entry per message, and
\* changes nothing.
C15_SystemEntryWhenSet ==
    [][op'.name = "get_messages_for_api"
       => /\ ApiListIs(op'.ret, IF system_prompt # None THEN 1 ELSE 0)
          /\ UNCHANGED <<SessionState, disk>>]_vars

\* C15 amended: the system entry is there when system_prompt is a non-empty
\* string; for None and for "" the list has the message entries only.
C15_SystemEntryWhenNonEmpty ==
    [][op'.name = "get_messages_for_api"
       => /\ ApiListIs(op'.ret,
                       IF system_prompt # None /\ system_prompt[1] # ""
                       THEN 1 ELSE 0)
          /\ UNCHANGED <<SessionState, disk>>]_vars

\* The request for a session with a non-empty prompt, a summary and later
\* messages: the system entry, then the summary's entry.
C15_Witness ==
    /\ op.name = "get_messages_for_api"
    /\ system_prompt = Some("be brief")
    /\ Len(messages) >= 3
    /\ messages[1].metadata.type = "summary"
    /\ Len(op.ret) = Len(messages) + 1
    /\ op.ret[1].role = "system"
    /\ op.ret[2] = ApiEntry("system", messages[1].content)

\* The request for a session whose prompt is the empty string.
C15_WitnessEmptyPrompt ==
    /\ op.name = "get_messages_for_api"
    /\ system_prompt = Some("")
    /\ messages # <<>>
    /\ Len(op.ret) = Len(messages)

----------------------------------------------------------------------------
(* Properties of export_history, checked under SpecStore.                    *)

\* C16 as claimed: export_history, whatever file name it is given, leaves
\* every existing session document and the state in memory as they were.
C16_ExportLeavesSessions ==
    [][op'.name = "export_history"
       => /\ \A n \in SessionNames : disk[n] # None => disk'[n] = disk[n]
          /\ UNCHANGED SessionState]_vars

----------------------------------------------------------------------------
(* Further properties of the compaction step, checked under SpecCompaction   *)
(* and SpecCompactionValid.                                                  *)

\* C17: an add_message calls the summarizer at most once, and when it has
\* returned with compress_after >= 4 the list has at most compress_after + 1
\* messages.
C17_OneShotAndBounded ==
    (op.name = "add_message" /\ op.result = "ok")
    => /\ op.calls <= 1
       /\ compress_after >= MinCompressAfter
          => Len(messages) <= compress_after + 1

\* An add_message that compacted a list two longer than a threshold of 4 (the
\* threshold had been lowered) and left the most the bound allows.
C17_Witness ==
    /\ op.name = "add_message"
    /\ op.result = "ok"
    /\ op.fired
    /\ op.calls = 1
    /\ compress_after = 4
    /\ messages[1].metadata.compressed_count = 2
    /\ Len(messages) = compress_after + 1

\* The scenario of C18: user and assistant turns in alternation, the first a
\* user turn. While no compaction has fired the list in memory is the list
\* of the turns appended so far, so the k-th append hands over k messages.
Alternating(msgs) ==
    \A i \in 1..Len(msgs) :
        msgs[i].role = IF i % 2 = 1 THEN "user" ELSE "assistant"

ScenarioStep == AddStep /\ compress_after = 4 /\ Alternating(Handed)

\* C18 as claimed: appends 1-4 fire no compaction; the 5th fires one and
\* leaves 3 messages, the summary first.
C18_ThreeMessagesAfterFifth ==
    [][ScenarioStep
       => /\ Len(Handed) <= 4 => (~op'.fired /\ messages' = Handed)
          /\ Len(Handed) = 5
             => /\ op'.fired
                /\ Len(messages') = 3
                /\ SummaryFirst(messages', 1)]_vars

\* C18 amended: the 5th append leaves 4 messages: the summary of the first
\* turn, then turns 3, 4 and 5 (turn 2, an assistant turn, led the tail and
\* was dropped by the normalizer).
C18_FourMessagesAfterFifth ==
    [][ScenarioStep
       => /\ Len(Handed) <= 4 => (~op'.fired /\ messages' = Handed)
          /\ Len(Handed) = 5
             => /\ op'.fired
                /\ Len(messages') = 4
                /\ SummaryFirst(messages', 1)
                /\ SubSeq(messages', 2, 4) = SubSeq(Handed, 3, 5)]_vars

\* The list after the 5th append of the scenario.
C18_Witness ==
    /\ op.name = "add_message"
    /\ op.fired
    /\ op.arg.role = "user"
    /\ compress_after = 4
    /\ Len(messages) = 4
    /\ SummaryFirst(messages, 1)
    /\ messages[2].role = "user"
    /\ messages[3].role = "assistant"
    /\ messages[4] = op.arg

----------------------------------------------------------------------------
(* Properties of the timestamps, checked under SpecClock.                    *)

\* Whether the timestamps of msgs never decrease from index `from` on.
NonDecreasingFrom(msgs, from) ==
    \A i \in from..(Len(msgs) - 1) : msgs[i].timestamp <= msgs[i + 1].timestamp

\* C19 as claimed: along the whole list, a summary included.
C19_TimestampsNonDecreasing == NonDecreasingFrom(messages, 1)

\* C19 amended: along the list behind a leading summary; the summary carries
\* the time of its compaction, which is not before the time of any message
\* behind it when the compaction returns.
C19_NonDecreasingBehindSummary ==
    /\ NonDecreasingFrom(messages,
           IF messages # <<>> /\ messages[1].metadata.type = "summary"
           THEN 2 ELSE 1)
    /\ \A i \in 2..Len(messages) : messages[i].metadata.type # "summary"
    /\ (op.name = "add_message" /\ op.fired)
       => \A i \in 2..Len(messages) :
              messages[i].timestamp <= messages[1].timestamp

\* A compaction that put a summary made at time 3 in front of messages made
\* at times 0, 1 and 3.
C19_Witness ==
    /\ op.name = "add_message"
    /\ op.fired
    /\ Len(messages) = 4
    /\ messages[1].metadata.type = "summary"
    /\ messages[1].timestamp = 3
    /\ messages[2].timestamp = 0
    /\ messages[3].timestamp = 1
    /\ messages[4].timestamp = 3

----------------------------------------------------------------------------
(* Properties of the usage counters, checked under Spec.                     *)

Counters == {"prompt_tokens", "completion_tokens", "total_tokens", "request_count"}

C20_Witness ==
    /\ op.name = "add_message"
    /\ op.fired
    /\ session_tokens.request_count > 0
    /\ session_tokens.total_tokens > 0

----------------------------------------------------------------------------
(* Properties of create_session and of the settings mutators, checked under  *)
(* Spec.                                                                     *)

\* C21: when create_session(name) has returned, messages is empty, the four
\* counters are 0, the session file is the one of name, and the document of
\* that file is the one of the state in memory.
C21_CreatedSessionIsEmptyAndSaved ==
    op.name = "create_session"
    => /\ messages = <<>>
       /\ session_tokens = ZeroTokens
       /\ session_file = Some(op.file)
       /\ disk[op.file] = Some(CurrentDocument)

\* A session created while a system prompt and a changed temperature were in
\* memory: both are kept and are in the new document.
C21_Witness ==
    /\ op.name = "create_session"
    /\ op.file = "s1"
    /\ system_prompt = Some("be brief")
    /\ temperature = Some(10)
    /\ disk["s1"][1].message_count = 0
    /\ disk["s1"][1].temperature = JsonNumber(Some(10))
    /\ disk["s1"][1].system_prompt = JsonString(Some("be brief"))

\* C22 as claimed: max_tokens is None or a positive integer in every state.
\* (Checked under SpecSettings.)
C22_MaxTokensNoneOrPositive == max_tokens = None \/ max_tokens[1] > 0

----------------------------------------------------------------------------
(* Properties of consecutive appends and of what a compaction keeps,         *)
(* checked under SpecCompactionValid (compress_after >= 4 throughout).       *)

\* An add_message that directly follows an add_message in which a
\* compaction fired.
AddAfterFired == op.name = "add_message" /\ op.fired /\ AddStep

\* C23 as claimed: in such a step no compaction fires.
C23_NeverTwiceInARow ==
    [][AddAfterFired => ~op'.fired]_vars

\* C23 amended: in such a step a compaction fires exactly when the one before
\* left compress_after + 1 messages, that is when the normalizer dropped none
\* of the compress_after tail messages.
C23_TwiceInARowIffFullTail ==
    [][AddAfterFired
       => /\ Len(messages) <= compress_after + 1
          /\ op'.fired <=> Len(messages) = compress_after + 1]_vars

\* An append behind a compaction that left 4 of 5 messages with threshold 4:
\* the list is 5 long, a summary and the 4 newest, and nothing fired.
C23_Witness ==
    /\ op.name = "add_message"
    /\ ~op.fired
    /\ compress_after = 4
    /\ Len(messages) = 5
    /\ SummaryFirst(messages, 1)
    /\ messages[5] = op.arg

\* A second compaction in a row: it folded the summary of the first one and
\* one more message.
C23_WitnessTwice ==
    /\ op.name = "add_message"
    /\ op.fired
    /\ compress_after = 4
    /\ SummaryFirst(messages, 2)

----------------------------------------------------------------------------
(* A further property of _normalize_tail, checked under SpecNormalize.       *)

UserSide == {"user", "tool"}

\* C24 as claimed: the output, when not empty, starts with a user or tool
\* message; behind a user or tool message comes an assistant message, and
\* behind an assistant message a user or tool message.
C24_SidesAlternate ==
    nt_pc # "input"
    => /\ Normalized = <<>> \/ Normalized[1].role \in UserSide
       /\ \A i \in 1..(Len(Normalized) - 1) :
              /\ Normalized[i].role \in UserSide
                 => Normalized[i + 1].role = "assistant"
              /\ Normalized[i].role = "assistant"
                 => Normalized[i + 1].role \in UserSide

----------------------------------------------------------------------------
(* What add_message leaves of the message it appended, checked under         *)
(* SpecClock, where messages made at different times are different values.  *)

\* C25 as claimed: when add_message has returned, the message it appended is
\* the last one of the list and its entry the last one of the request.
C25_AppendedIsLast ==
    (op.name = "add_message" /\ op.result = "ok")
    => /\ messages # <<>>
       /\ messages[Len(messages)] = op.arg
       /\ LET request == GetMessagesForApi(system_prompt, messages)
          IN  request[Len(request)] = ApiEntry(op.arg.role, op.arg.content)

----------------------------------------------------------------------------
(* What a compaction keeps, checked under SpecCompactionValid.               *)

\* C26 as claimed: when a compaction has fired, the messages that were not
\* handed to the summarizer (the last compress_after ones) are all in the new
\* list, unchanged and in their order, behind the summary.
C26_TailRetained ==
    [][(AddStep /\ op'.fired)
       => /\ messages'[1].metadata.compressed_count = PrefixLen
          /\ SubSeq(messages', 2, Len(messages')) = ClaimedTail]_vars

----------------------------------------------------------------------------
(* Where summaries are, checked under SpecCompaction (every add_message of   *)
(* it passes metadata that is not tagged "summary").                         *)

\* C27: a message tagged "summary" is the first message of the list and has
\* the role system; so the list has at most one.
C27_OneSummaryAtFront ==
    \A i \in 1..Len(messages) :
        messages[i].metadata.type = "summary"
        => i = 1 /\ messages[i].role = "system"

\* A list whose summary stands for a folded earlier summary and more, with
\* messages behind it, after an append that did not compact.
C27_Witness ==
    /\ op.name = "add_message"
    /\ ~op.fired
    /\ Len(messages) >= 3
    /\ messages[1].metadata.type = "summary"
    /\ messages[1].metadata.compressed_count >= 2
    /\ messages[1].role = "system"
    /\ \E i \in 2..Len(messages) : messages[i].role = "tool"

----------------------------------------------------------------------------
(* Properties of MCPClient, checked under SpecMcp.                           *)

\* The requests of the three strategies in their order.
DiscoveryOrder == <<"POST /mcp">> \o DirectEndpoints \o <<"GET /sse/tools">>

\* Whether the requests of sent are in that order (some may be missing).
InDiscoveryOrder(sent) ==
    LET pos(r) == CHOOSE k \in 1..Len(DiscoveryOrder) : DiscoveryOrder[k] = r
    IN  \A i, j \in 1..Len(sent) : i < j => pos(sent[i]) < pos(sent[j])

\* The server answered the JSON-RPC request with something
\* _try_jsonrpc_method takes a tool list from.
RpcSucceeded == mcp_server.rpc.kind \notin RpcRaises

\* No strategy got an answer it could use.
NoStrategyConnected ==
    /\ ~RpcSucceeded
    /\ TryDirectEndpoint(mcp_server).raised
    /\ TrySseEndpoint(mcp_server).raised

\* C28 as claimed: list_tools sends the requests in the fixed order and, when
\* the JSON-RPC request succeeded, sends nothing else and returns its list;
\* test_connection is True whenever the JSON-RPC request succeeded and False
\* only when no strategy connected.
C28_FirstAnswerWins ==
    /\ mcp_op.name = "list_tools"
       => /\ InDiscoveryOrder(mcp_op.sent)
          /\ RpcSucceeded
             => /\ ~mcp_op.raised
                /\ mcp_op.sent = <<"POST /mcp">>
                /\ mcp_op.tools = mcp_server.rpc.tools
    /\ mcp_op.name = "test_connection"
       => /\ RpcSucceeded => mcp_op.connected
          /\ ~mcp_op.connected => NoStrategyConnected

====
